---- MODULE Spec2Model ----
(***************************************************************************)
(* IdeaSpark (ideaspark.py): a line-oriented loop that reads a concept,    *)
(* sends one HTTP POST to the Gemini endpoint and prints the structured    *)
(* answer.  Text is modelled as sequences of one-character strings so that *)
(* str.strip(), str.lower() and str.upper() are computed, not assumed.     *)
(***************************************************************************)
EXTENDS Integers, Sequences, FiniteSets, TLC

\* ------------------------------------------------------------------ bounds

\* Number of input() calls explored in one run of the process.
MaxLines == 3
\* Longest `angles` list of a parsed result.
MaxAngles == 2

\* ------------------------------------------------------------------ text

Whitespace == {" ", "\t"}

LowerLetters ==
  <<"a", "b", "c", "e", "g", "i", "k", "n", "o", "p", "q", "r", "t", "u", "w", "x", "y">>
UpperLetters ==
  <<"A", "B", "C", "E", "G", "I", "K", "N", "O", "P", "Q", "R", "T", "U", "W", "X", "Y">>

Letter == 1..Len(LowerLetters)

LowerOf == [c \in { UpperLetters[k] : k \in Letter } |->
              LowerLetters[CHOOSE k \in Letter : UpperLetters[k] = c]]

UpperOf == [c \in { LowerLetters[k] : k \in Letter } |->
              UpperLetters[CHOOSE k \in Letter : LowerLetters[k] = c]]

\* A mutant of Lower: the comparison is case-sensitive.
Lower_CaseSensitive(s) == s

\* str.lower()
Lower(s) == [i \in 1..Len(s) |-> IF s[i] \in DOMAIN LowerOf THEN LowerOf[s[i]] ELSE s[i]]

\* str.upper()
Upper(s) == [i \in 1..Len(s) |-> IF s[i] \in DOMAIN UpperOf THEN UpperOf[s[i]] ELSE s[i]]

RECURSIVE LStrip(_)
LStrip(s) == IF s # <<>> /\ Head(s) \in Whitespace THEN LStrip(Tail(s)) ELSE s

RECURSIVE RStrip(_)
RStrip(s) == IF s # <<>> /\ s[Len(s)] \in Whitespace
               THEN RStrip(SubSeq(s, 1, Len(s) - 1)) ELSE s

\* A mutant of Strip: the line is used as typed.
Strip_None(s) == s

\* str.strip()
Strip(s) == RStrip(LStrip(s))

\* The literal 'exit' the lower-cased concept is compared with.
ExitSentinel == <<"e", "x", "i", "t">>

\* ------------------------------------------------------------------ inputs

\* Lines the user may type (return values of input()).
InputLines ==
  { <<>>, <<" ">>, <<" ", "\t">>,
    <<"e", "x", "i", "t">>, <<"E", "X", "I", "T">>, <<" ", "E", "x", "i", "t", " ">>,
    <<"a">>, <<" ", "a", "\t">>, <<"e", "x", "i">> }

\* Values of the GOOGLE_API_KEY environment variable: unset, empty, set.
NoKey == "None"
EmptyKey == ""
ApiKeys == {NoKey, EmptyKey, "k"}

\* A mutant of KeyMissing: only an unset variable counts as missing.
KeyMissing_UnsetOnly(k) == k = NoKey

\* `not API_KEY`
KeyMissing(k) == k = NoKey \/ k = EmptyKey

\* ------------------------------------------------------------------ output

\* One print() call: what was printed and the values formatted into it.
Line(tag, text, aux, num) == [tag |-> tag, text |-> text, aux |-> aux, num |-> num]
Msg(tag) == Line(tag, <<>>, <<>>, 0)
MsgText(tag, text) == Line(tag, text, <<>>, 0)

\* ------------------------------------------------------------------ results

\* A value get_llm_response can hand to main: None, or what json.loads
\* yields.  "Invalid" stands for text json.loads rejects.
Result(t, idea, angles, n) == [t |-> t, idea |-> idea, angles |-> angles, n |-> n]
NoneResult == Result("None", <<>>, <<>>, 0)
InvalidJSON == Result("Invalid", <<>>, <<>>, 0)

Categories == { <<"b", "A">>, <<"a">> }
PointLists == { <<>>, << <<"p">> >>, << <<"q">>, <<"p">> >> }

\* An element of `angles`: an object with optional keys, or some other value.
Angle(isDict, category, points) ==
  [isDict |-> isDict, category |-> category, points |-> points]
NonDictAngle == Angle(FALSE, <<>>, <<>>)
Angles ==
  { Angle(TRUE, <<c>>, <<p>>) : c \in Categories, p \in PointLists }
  \cup { Angle(TRUE, <<>>, <<>>), NonDictAngle }

AngleLists == UNION { [1..n -> Angles] : n \in 0..MaxAngles }

Ideas == { <<>>, << <<>> >>, << <<"X">> >> }

\* JSON objects with the keys idea / angles each present or absent.
DictResults ==
  { Result("dict", i, a, 0) : i \in Ideas, a \in {<<>>} \cup { <<l>> : l \in AngleLists } }

\* JSON values that are not objects: null, [] and a one-element array.
OtherResults == { Result("null", <<>>, <<>>, 0), Result("list", <<>>, <<>>, 0),
                  Result("list", <<>>, <<>>, 1) }

ParsedResults == DictResults \cup OtherResults

\* Python truth value of brainstorm_result.
Truthy(res) ==
  CASE res.t = "dict" -> res.idea # <<>> \/ res.angles # <<>>
    [] res.t = "list" -> res.n > 0
    [] OTHER -> FALSE

\* ------------------------------------------------------------------ replies

\* The nested text of a reply, by what json.loads makes of it.
Text(empty, loads) == [empty |-> empty, loads |-> loads]
EmptyText == Text(TRUE, InvalidJSON)
Texts == { Text(FALSE, r) : r \in ParsedResults \cup {InvalidJSON} }

Rating(category, probability) == [category |-> category, probability |-> probability]
RatingLists ==
  { <<>>,
    << Rating(<< <<"a">> >>, << <<"p">> >>) >>,
    << Rating(<< <<"b">> >>, << <<"q">> >>), Rating(<< <<"a">> >>, << <<"p">> >>) >>,
    << Rating(<< <<"a">> >>, << <<"p">> >>), Rating(<< <<"b">> >>, <<>>) >>,
    << Rating(<<>>, << <<"p">> >>) >> }

Feedback(blockReason, safetyRatings) ==
  [blockReason |-> blockReason, safetyRatings |-> safetyRatings]
Feedbacks ==
  { <<>>, << Feedback(<<>>, <<>>) >> }
  \cup { << Feedback(<< <<"x">> >>, r) >> : r \in RatingLists }

\* candidates[0].content.parts[0].text, every level optional.
Part(text) == [text |-> text]
Content(parts) == [parts |-> parts]
Candidate(content) == [content |-> content]
Envelope(candidates, promptFeedback) ==
  [candidates |-> candidates, promptFeedback |-> promptFeedback]

WithText(t) == << Candidate(<< Content(<< Part(<<t>>) >>) >>) >>
TextlessCandidates ==
  { <<>>,
    << Candidate(<<>>) >>,
    << Candidate(<< Content(<<>>) >>) >>,
    << Candidate(<< Content(<< Part(<<>>) >>) >>) >>,
    WithText(EmptyText) }

Envelopes ==
  { Envelope(c, f) : c \in TextlessCandidates, f \in Feedbacks }
  \cup { Envelope(WithText(t), <<>>) : t \in Texts }

EmptyEnvelope == Envelope(<<>>, <<>>)

\* What requests.post produces: an exception, or a response with a status.
Reply(kind, raises, status, body, envelope) ==
  [kind |-> kind, raises |-> raises, status |-> status, body |-> body,
   envelope |-> envelope]
NoReply == Reply("none", "none", 0, <<>>, EmptyEnvelope)
Replies ==
  { Reply("raised", e, 0, <<>>, EmptyEnvelope) :
      e \in {"ConnectionError", "Timeout", "TooManyRedirects"} }
  \cup { Reply("response", "none", st, <<"b">>, EmptyEnvelope) : st \in {429, 500} }
  \cup { Reply("response", "none", 200, <<>>, env) : env \in Envelopes }

\* response.raise_for_status()
RaisesForStatus(status) == 400 <= status /\ status < 600

\* ------------------------------------------------------------------ get_llm_response

\* What a call leaves behind: the lines printed, the value returned, and the
\* exception that left the function ("none" when it returned).
Outcome(out, ret, exc) == [out |-> out, ret |-> ret, exc |-> exc]

\* The except clauses of get_llm_response, in the order they are tried.
ExceptClauses ==
  <<"HTTPError", "ConnectionError", "Timeout", "RequestException", "JSONDecodeError">>

\* The classes an exception is an instance of.
Bases(e) ==
  CASE e \in {"HTTPError", "ConnectionError", "Timeout", "TooManyRedirects"} ->
         {e, "RequestException"}
    [] OTHER -> {e}

\* A mutant of CaughtBy: the HTTPError clause is missing.
CaughtBy_NoHTTPError(e) ==
  LET hits == { i \in 2..Len(ExceptClauses) : ExceptClauses[i] \in Bases(e) }
  IN  IF hits = {} THEN 0 ELSE CHOOSE i \in hits : \A j \in hits : i <= j

\* Index of the first except clause matching e, 0 when none does.
CaughtBy(e) ==
  LET hits == { i \in 1..Len(ExceptClauses) : ExceptClauses[i] \in Bases(e) }
  IN  IF hits = {} THEN 0 ELSE CHOOSE i \in hits : \A j \in hits : i <= j

\* The body of the matching except clause; an unmatched exception propagates.
Handle(e, resp, out) ==
  LET k == CaughtBy(e)
  IN  CASE k = 0 -> Outcome(out, NoneResult, e)
        [] k = 1 -> Outcome(Append(out, Line("HTTP_ERROR", resp.body, <<>>, resp.status)),
                            NoneResult, "none")
        [] k = 2 -> Outcome(Append(out, Msg("CONNECTION_ERROR")), NoneResult, "none")
        [] k = 3 -> Outcome(Append(out, Msg("TIMEOUT_ERROR")), NoneResult, "none")
        [] k = 4 -> Outcome(Append(out, Msg("REQUEST_ERROR")), NoneResult, "none")
        [] k = 5 -> Outcome(out \o <<Msg("JSON_DECODE_ERROR"), Msg("RAW_LLM_STRING")>>,
                            NoneResult, "none")

\* The four-part condition guarding the nested text.
HasText(env) ==
  /\ env.candidates # <<>>
  /\ env.candidates[1].content # <<>>
  /\ env.candidates[1].content[1].parts # <<>>
  /\ env.candidates[1].content[1].parts[1].text # <<>>
  /\ ~env.candidates[1].content[1].parts[1].text[1].empty

NestedText(env) == env.candidates[1].content[1].parts[1].text[1]

\* The loop over promptFeedback.safetyRatings: rating['category'] and
\* rating['probability'] raise KeyError on an entry lacking the key.
RECURSIVE PrintRatings(_, _)
PrintRatings(ratings, out) ==
  IF ratings = <<>> THEN Outcome(out, NoneResult, "none")
  ELSE LET r == Head(ratings)
       IN  IF r.category = <<>> \/ r.probability = <<>>
             THEN Outcome(out, NoneResult, "KeyError")
             ELSE PrintRatings(Tail(ratings),
                    Append(out, Line("RATING", r.category[1], r.probability[1], 0)))

\* The else branch: a reply without nested text.
ReportTextless(env) ==
  IF env.promptFeedback # <<>> /\ env.promptFeedback[1].blockReason # <<>>
    THEN PrintRatings(env.promptFeedback[1].safetyRatings,
                      <<MsgText("BLOCKED", env.promptFeedback[1].blockReason[1])>>)
    ELSE Outcome(<<Msg("UNEXPECTED_FORMAT"), Msg("RAW_ENVELOPE")>>, NoneResult, "none")

\* The try block, before any except clause is considered.
TryBody(resp) ==
  CASE resp.kind = "raised" -> Outcome(<<>>, NoneResult, resp.raises)
    [] resp.kind = "response" /\ RaisesForStatus(resp.status) ->
         Outcome(<<>>, NoneResult, "HTTPError")
    [] OTHER ->
         IF HasText(resp.envelope)
           THEN LET v == NestedText(resp.envelope).loads
                IN  IF v.t = "Invalid" THEN Outcome(<<>>, NoneResult, "JSONDecodeError")
                    ELSE Outcome(<<>>, v, "none")
           ELSE ReportTextless(resp.envelope)

GetLLMResponse(resp) ==
  LET t == TryBody(resp)
  IN  IF t.exc = "none" THEN t ELSE Handle(t.exc, resp, t.out)

\* ------------------------------------------------------------------ rendering

RECURSIVE PrintPoints(_)
PrintPoints(points) ==
  IF points = <<>> THEN <<>>
  ELSE <<MsgText("POINT", Head(points))>> \o PrintPoints(Tail(points))

\* A mutant of PointLines: an empty points list prints nothing.
PointLines_NoPlaceholder(points) == PrintPoints(points)

\* `if points: ... else: ...`
PointLines(points) ==
  IF points # <<>> THEN PrintPoints(points) ELSE <<Msg("NO_POINTS")>>

\* The default of angle.get('category', 'Unknown Category').
UnknownCategory ==
  <<"U", "n", "k", "n", "o", "w", "n", " ", "C", "a", "t", "e", "g", "o", "r", "y">>

\* The loop over brainstorm_result.get('angles', []); angle.get raises
\* AttributeError on an element that is not an object.
RECURSIVE RenderAngles(_, _)
RenderAngles(angles, out) ==
  IF angles = <<>> THEN Outcome(out, NoneResult, "none")
  ELSE LET a == Head(angles)
           category == IF a.category # <<>> THEN a.category[1]
                       ELSE UnknownCategory
           points == IF a.points # <<>> THEN a.points[1] ELSE <<>>
       IN  IF ~a.isDict THEN Outcome(out, NoneResult, "AttributeError")
           ELSE RenderAngles(Tail(angles),
                  Append(out, MsgText("CATEGORY", Upper(category))) \o PointLines(points))

\* The `if brainstorm_result:` branch of main.
Render(res, concept) ==
  IF res.t # "dict" THEN Outcome(<<Msg("RESULTS_BANNER")>>, NoneResult, "AttributeError")
  ELSE LET idea == IF res.idea # <<>> THEN res.idea[1] ELSE concept
           angles == IF res.angles # <<>> THEN res.angles[1] ELSE <<>>
           body == RenderAngles(angles,
                     <<Msg("RESULTS_BANNER"), MsgText("ORIGINAL_CONCEPT", idea), Msg("RULE")>>)
       IN  IF body.exc # "none" THEN body
           ELSE Outcome(Append(body.out, Msg("END_RULE")), NoneResult, "none")

\* ------------------------------------------------------------------ state

VARIABLES
  pc,                 \* where the process is: boot, main, await, calling,
                      \* terminated (main returned), exited (sys.exit), crashed
  apiKey,             \* GOOGLE_API_KEY as found in the environment
  exitStatus,         \* <<>> while running, <<status>> once the process ended
  exc,                \* the uncaught exception that ended the process, or "none"
  line,               \* the last value input() returned
  concept,            \* main's local `concept`
  inFlight,           \* POST requests sent and not yet answered
  response,           \* what requests.post produced for the current concept
  brainstorm_result,  \* main's local `brainstorm_result`
  out,                \* lines printed since the last input() call began
  nReads,             \* input() calls made
  nPrompts,           \* input prompts shown
  nPosts,             \* requests.post calls made
  nKeyChecks          \* evaluations of `if not API_KEY`

vars == <<pc, apiKey, exitStatus, exc, line, concept, inFlight, response,
          brainstorm_result, out, nReads, nPrompts, nPosts, nKeyChecks>>

Init ==
  /\ pc = "boot"
  /\ apiKey \in ApiKeys
  /\ exitStatus = <<>>
  /\ exc = "none"
  /\ line = <<>>
  /\ concept = <<>>
  /\ inFlight = <<>>
  /\ response = NoReply
  /\ brainstorm_result = NoneResult
  /\ out = <<>>
  /\ nReads = 0
  /\ nPrompts = 0
  /\ nPosts = 0
  /\ nKeyChecks = 0

\* Module level: the start-up print and the credential check.
Bootstrap ==
  /\ pc = "boot"
  /\ nKeyChecks' = nKeyChecks + 1
  /\ IF KeyMissing(apiKey)
       THEN /\ out' = <<Msg("SCRIPT_STARTING"), Msg("KEY_NOT_FOUND"),
                        Msg("KEY_HOW_TO_SET"), Msg("KEY_REOPEN_TERMINAL")>>
            /\ pc' = "exited"
            /\ exitStatus' = <<1>>
       ELSE /\ out' = <<Msg("SCRIPT_STARTING")>>
            /\ pc' = "main"
            /\ exitStatus' = exitStatus
  /\ UNCHANGED <<apiKey, exc, line, concept, inFlight, response, brainstorm_result,
                 nReads, nPrompts, nPosts>>

\* The entry point calls main(), which prints its three banner lines.
EnterMain ==
  /\ pc = "main"
  /\ out' = out \o <<Msg("TITLE"), Msg("INSTRUCTIONS"), Msg("TYPE_EXIT")>>
  /\ pc' = "await"
  /\ UNCHANGED <<apiKey, exitStatus, exc, line, concept, inFlight, response,
                 brainstorm_result, nReads, nPrompts, nPosts, nKeyChecks>>

\* The prompt text built around the concept.
Prompt(c) == <<"\"">> \o c \o <<"\"">>

\* The POST: the key travels in the x-goog-api-key header.
Request(c, key) == [header |-> key, prompt |-> Prompt(c)]

\* A mutant of Post: the request is sent a second time.
Post_Twice(q, c, key) == Append(Append(q, Request(c, key)), Request(c, key))

\* requests.post(...): one request goes out.
Post(q, c, key) == Append(q, Request(c, key))

\* One pass of the loop from input() to the point where the POST is sent
\* (or to `break` / `continue`).  The previous pass's `brainstorm_result` and
\* reply are dead here (never read before being assigned again), so the pass
\* starts with them cleared.
ReadLine(l) ==
  /\ pc = "await"
  /\ nReads < MaxLines
  /\ nReads' = nReads + 1
  /\ nPrompts' = nPrompts + 1
  /\ line' = l
  /\ concept' = Strip(l)
  /\ response' = NoReply
  /\ brainstorm_result' = NoneResult
  /\ IF Lower(concept') = ExitSentinel
       THEN /\ out' = <<Msg("INPUT_PROMPT"), Msg("FAREWELL")>>
            /\ pc' = "terminated"
            /\ exitStatus' = <<0>>
            /\ UNCHANGED <<inFlight, nPosts>>
       ELSE IF concept' = <<>>
         THEN /\ out' = <<Msg("INPUT_PROMPT"), Msg("ENTER_CONCEPT")>>
              /\ pc' = "await"
              /\ UNCHANGED <<exitStatus, inFlight, nPosts>>
         ELSE /\ out' = <<Msg("INPUT_PROMPT"), Msg("BRAINSTORMING")>>
              /\ pc' = "calling"
              /\ inFlight' = Post(inFlight, concept', apiKey)
              /\ nPosts' = nPosts + 1
              /\ UNCHANGED exitStatus
  /\ UNCHANGED <<apiKey, exc, nKeyChecks>>

\* input() at end of input raises EOFError, which nothing catches.
ReadEOF ==
  /\ pc = "await"
  /\ nReads < MaxLines
  /\ nReads' = nReads + 1
  /\ nPrompts' = nPrompts + 1
  /\ out' = <<Msg("INPUT_PROMPT")>>
  /\ response' = NoReply
  /\ brainstorm_result' = NoneResult
  /\ exc' = "EOFError"
  /\ pc' = "crashed"
  /\ exitStatus' = <<1>>
  /\ UNCHANGED <<apiKey, line, concept, inFlight, nPosts, nKeyChecks>>

\* The POST is answered: the rest of get_llm_response, then the rest of the
\* loop body in main.
Complete(r) ==
  /\ pc = "calling"
  /\ response' = r
  /\ inFlight' = Tail(inFlight)
  /\ LET got == GetLLMResponse(r)
         shown == IF got.exc = "none" /\ Truthy(got.ret)
                    THEN Render(got.ret, concept)
                    ELSE Outcome(<<Msg("FAILED")>>, NoneResult, "none")
         raised == IF got.exc # "none" THEN got.exc ELSE shown.exc
     IN  /\ brainstorm_result' = IF got.exc = "none" THEN got.ret ELSE brainstorm_result
         /\ out' = IF got.exc # "none" THEN out \o got.out
                   ELSE out \o got.out \o shown.out
         /\ exc' = raised
         /\ IF raised = "none"
              THEN pc' = "await" /\ exitStatus' = exitStatus
              ELSE pc' = "crashed" /\ exitStatus' = <<1>>
  /\ UNCHANGED <<apiKey, line, concept, nReads, nPrompts, nPosts, nKeyChecks>>

Next ==
  \/ Bootstrap
  \/ EnterMain
  \/ \E l \in InputLines : ReadLine(l)
  \/ ReadEOF
  \/ \E r \in Replies : Complete(r)

Spec == Init /\ [][Next]_vars

\* ------------------------------------------------------------------ properties
\* The vocabulary of the properties is stated on the raw line and the raw
\* reply, independently of Strip, Lower, Upper and the client's branches.

Range(q) == { q[i] : i \in 1..Len(q) }
Last(q) == q[Len(q)]

\* The line consists of whitespace only (or of nothing).
IsBlank(l) == \A i \in 1..Len(l) : l[i] \in Whitespace

\* The line without its leading and trailing whitespace.
Trimmed(l) ==
  LET solid == { i \in 1..Len(l) : l[i] \notin Whitespace }
  IN  IF solid = {} THEN <<>>
      ELSE SubSeq(l, CHOOSE i \in solid : \A j \in solid : i <= j,
                     CHOOSE i \in solid : \A j \in solid : j <= i)

\* Every spelling of the sentinel, letter by letter in either case.
SentinelSpellings ==
  { <<a, b, c, d>> : a \in {"e", "E"}, b \in {"x", "X"}, c \in {"i", "I"}, d \in {"t", "T"} }

IsSentinel(l) == Trimmed(l) \in SentinelSpellings

\* The step just taken returned a line from input().
LineRead == nReads' = nReads + 1 /\ exc' = "none"

\* C1: a line that, trimmed, spells the sentinel in any casing ends the loop
\* with the farewell and without an API call; afterwards nothing is read and
\* nothing is posted.
C1_SentinelTerminates ==
  [][ /\ (LineRead /\ IsSentinel(line')) =>
           /\ pc' = "terminated"
           /\ Last(out') = Msg("FAREWELL")
           /\ nPosts' = nPosts
           /\ inFlight' = <<>>
      /\ pc = "terminated" => (nReads' = nReads /\ nPosts' = nPosts /\ pc' = pc)
    ]_vars

C1_Witness ==
  /\ pc = "terminated"
  /\ line = <<" ", "E", "x", "i", "t", " ">>
  /\ nReads = 3
  /\ nPosts = 1

\* C2: an empty or whitespace-only line causes no API call, prints the
\* 'enter a concept' message and leaves the loop awaiting input, wherever in
\* the session it occurs.
C2_BlankLineReprompts ==
  [][ (LineRead /\ IsBlank(line')) =>
        /\ nPosts' = nPosts
        /\ inFlight' = inFlight
        /\ out' = <<Msg("INPUT_PROMPT"), Msg("ENTER_CONCEPT")>>
        /\ pc' = "await"
        /\ exitStatus' = <<>>
    ]_vars

C2_Witness ==
  /\ pc = "await"
  /\ line = <<" ", "\t">>
  /\ Last(out) = Msg("ENTER_CONCEPT")
  /\ nReads = 3
  /\ nPosts = 1

\* C3: with the credential unset or empty the process prints the corrective
\* message and exits with status 1 before any prompt, read or API call; the
\* credential is checked once, before the loop, and never again.
C3_MissingKeyExits ==
  /\ nKeyChecks <= 1
  /\ pc # "boot" => nKeyChecks = 1
  /\ (pc # "boot" /\ (apiKey = NoKey \/ apiKey = EmptyKey)) =>
       /\ pc = "exited"
       /\ exitStatus = <<1>>
       /\ Msg("KEY_NOT_FOUND") \in Range(out)
       /\ Msg("INPUT_PROMPT") \notin Range(out)
       /\ nPrompts = 0
       /\ nReads = 0
       /\ nPosts = 0

C3_Witness == pc = "exited" /\ apiKey = EmptyKey /\ exitStatus = <<1>>

\* C4: the process ends with status 0 both on the sentinel and on end of
\* input while awaiting input.
C4_EndOfInputExitsZero ==
  (pc = "terminated" \/ exc = "EOFError") => exitStatus = <<0>>

\* C5: an HTTP error status is reported with its code and body, no result is
\* returned, nothing is raised, the generic failure message follows and the
\* loop awaits input; the next concept is posted again.
C5_HttpErrorReported ==
  /\ [] ( (response.kind = "response" /\ response.status >= 400) =>
            /\ pc = "await"
            /\ exc = "none"
            /\ exitStatus = <<>>
            /\ brainstorm_result = NoneResult
            /\ inFlight = <<>>
            /\ out = << Msg("INPUT_PROMPT"), Msg("BRAINSTORMING"),
                        Line("HTTP_ERROR", response.body, <<>>, response.status),
                        Msg("FAILED") >> )
  /\ [][ ( /\ response.kind = "response" /\ response.status >= 400
           /\ LineRead /\ ~IsBlank(line') /\ ~IsSentinel(line') ) =>
             /\ nPosts' = nPosts + 1
             /\ Len(inFlight') = 1
             /\ pc' = "calling"
       ]_vars

C5_Witness ==
  /\ response.kind = "response"
  /\ response.status = 429
  /\ Last(out) = Msg("FAILED")
  /\ nPosts = 2

\* What the data model calls a BrainstormResult, `idea` possibly omitted:
\* an object whose angles are objects with a category and a points list.
IsBrainstormResult(v) ==
  /\ v.t = "dict"
  /\ v.angles # <<>>
  /\ \A i \in 1..Len(v.angles[1]) :
       LET a == v.angles[1][i]
       IN  a.isDict /\ a.category # <<>> /\ a.points # <<>>

\* The reply carries nested text that parses to a BrainstormResult.
GoodReply(r) ==
  /\ r.kind = "response"
  /\ r.status = 200
  /\ HasText(r.envelope)
  /\ IsBrainstormResult(NestedText(r.envelope).loads)

\* Every safety rating of the reply carries both of its keys.
RatingsComplete(r) ==
  \/ r.envelope.promptFeedback = <<>>
  \/ \A i \in 1..Len(r.envelope.promptFeedback[1].safetyRatings) :
       LET g == r.envelope.promptFeedback[1].safetyRatings[i]
       IN  g.category # <<>> /\ g.probability # <<>>

\* C6: every request that ends in a recoverable error (transport, policy
\* rejection, malformed envelope, nested text that is not JSON, nested JSON
\* not of the BrainstormResult shape) leaves the process running and the loop
\* awaiting input.  Replies with an incomplete safety rating are C10's case
\* and are left out here, so that a violation is one of this claim alone.
C6_ErrorsAreRecoverable ==
  (response # NoReply /\ ~GoodReply(response) /\ RatingsComplete(response)) =>
    (pc = "await" /\ exc = "none" /\ exitStatus = <<>>)

\* C7: each non-empty, non-sentinel line causes exactly one POST and no other
\* step posts; at most one request is in flight; a line is read only when no
\* request is in flight and the previous concept's result or failure message
\* has been printed.
C7_OnePostPerConcept ==
  /\ [] ( /\ Len(inFlight) <= 1
          /\ pc = "calling" <=> Len(inFlight) = 1
          /\ (pc = "await" /\ response # NoReply) =>
               Last(out) \in {Msg("FAILED"), Msg("END_RULE")} )
  /\ [][ /\ nPosts' - nPosts =
              IF LineRead /\ ~IsBlank(line') /\ ~IsSentinel(line') THEN 1 ELSE 0
         /\ Len(inFlight') - Len(inFlight) \in {nPosts' - nPosts, -1}
         /\ nReads' # nReads => (pc = "await" /\ inFlight = <<>>)
       ]_vars

C7_Witness ==
  /\ pc = "await"
  /\ nReads = 3
  /\ nPosts = 2
  /\ response.kind = "raised"
  /\ Last(out) = Msg("FAILED")

\* The category names of the model, upper-cased by hand.
Capitals(c) == CASE c = <<"b", "A">> -> <<"B", "A">> [] c = <<"a">> -> <<"A">>

\* The lines the renderer owes for a list of angles, in the order returned.
RECURSIVE Owed(_)
Owed(angles) ==
  IF angles = <<>> THEN <<>>
  ELSE LET a == angles[1]
           pts == a.points[1]
       IN  <<MsgText("CATEGORY", Capitals(a.category[1]))>>
           \o (IF Len(pts) = 0 THEN <<Msg("NO_POINTS")>>
               ELSE [i \in 1..Len(pts) |-> MsgText("POINT", pts[i])])
           \o Owed(SubSeq(angles, 2, Len(angles)))

\* C8: a parsed BrainstormResult is rendered as banner, echoed concept (the
\* idea, or the concept typed when idea is omitted), then per angle in the
\* order returned the upper-cased category and one bullet per point in order,
\* or the placeholder for an empty points list; nothing is raised.
C8_RenderedInOrder ==
  (pc # "calling" /\ IsBrainstormResult(brainstorm_result)) =>
    /\ pc = "await"
    /\ exc = "none"
    /\ out = << Msg("INPUT_PROMPT"), Msg("BRAINSTORMING"), Msg("RESULTS_BANNER"),
                MsgText("ORIGINAL_CONCEPT",
                        IF brainstorm_result.idea # <<>> THEN brainstorm_result.idea[1]
                        ELSE Trimmed(line)),
                Msg("RULE") >>
             \o Owed(brainstorm_result.angles[1])
             \o <<Msg("END_RULE")>>

C8_Witness ==
  /\ pc = "await"
  /\ brainstorm_result.t = "dict"
  /\ brainstorm_result.idea = <<>>
  /\ brainstorm_result.angles =
       << << Angle(TRUE, << <<"b", "A">> >>, << << <<"q">>, <<"p">> >> >>),
             Angle(TRUE, << <<"a">> >>, << <<>> >>) >> >>
  /\ Last(out) = Msg("END_RULE")

\* Messages get_llm_response prints on its failure paths.
ClientMessages ==
  { "BLOCKED", "UNEXPECTED_FORMAT", "HTTP_ERROR", "CONNECTION_ERROR",
    "TIMEOUT_ERROR", "REQUEST_ERROR", "JSON_DECODE_ERROR" }

\* C9: whenever the loop prints the generic failure message, the client has
\* printed a message specific to the error before it.
C9_NoSilentFailure ==
  (out # <<>> /\ Last(out) = Msg("FAILED")) =>
    \E i \in 1..Len(out) - 1 : out[i].tag \in ClientMessages

\* C10: a 2xx envelope without nested text yields no result and raises
\* nothing, whatever its promptFeedback and safety ratings carry.
C10_TextlessEnvelopeReturnsNone ==
  (response.kind = "response" /\ response.status = 200 /\ ~HasText(response.envelope)) =>
    /\ exc = "none"
    /\ pc = "await"
    /\ brainstorm_result = NoneResult
    /\ Last(out) = Msg("FAILED")

====
